---- MODULE Spec2Model ----
(***************************************************************************)
(* Model of linky_month.py: the value/time axis generators, the four      *)
(* granularity exporters and the main driver.                              *)
(*                                                                         *)
(* Dates are records [year, month, day, minute]; `minute' is the minute   *)
(* of the day and is 0 for a plain calendar date.  Text that the program  *)
(* parses (sys.argv[1], dateDebut) is a sequence of one-character         *)
(* strings; text that the program produces (labels, fetch arguments) is   *)
(* a string.                                                               *)
(***************************************************************************)
EXTENDS Integers, Sequences, FiniteSets, TLC

(* ---------------------------- bounds ----------------------------------- *)
MaxLen == 3
MaxDecalage == 2

(* ------------------------ calendar (datetime) -------------------------- *)
MINYEAR == 1
MAXYEAR == 9999

IsLeap(y) == (y % 4 = 0) /\ ((y % 100 # 0) \/ (y % 400 = 0))

DaysInMonth(y, m) ==
    IF m = 2 THEN (IF IsLeap(y) THEN 29 ELSE 28)
    ELSE IF m \in {4, 6, 9, 11} THEN 30 ELSE 31

Min(a, b) == IF a < b THEN a ELSE b

MkDate(y, m, d) == [year |-> y, month |-> m, day |-> d, minute |-> 0]

NextDay(dt) ==
    IF dt.day < DaysInMonth(dt.year, dt.month)
    THEN [dt EXCEPT !.day = dt.day + 1]
    ELSE IF dt.month < 12
         THEN [dt EXCEPT !.month = dt.month + 1, !.day = 1]
         ELSE [dt EXCEPT !.year = dt.year + 1, !.month = 1, !.day = 1]

PrevDay(dt) ==
    IF dt.day > 1
    THEN [dt EXCEPT !.day = dt.day - 1]
    ELSE IF dt.month > 1
         THEN [dt EXCEPT !.month = dt.month - 1,
                         !.day = DaysInMonth(dt.year, dt.month - 1)]
         ELSE [dt EXCEPT !.year = dt.year - 1, !.month = 12, !.day = 31]

RECURSIVE AddDays(_, _)
AddDays(dt, n) ==
    IF n = 0 THEN dt
    ELSE IF n > 0 THEN AddDays(NextDay(dt), n - 1)
    ELSE AddDays(PrevDay(dt), n + 1)

\* dt + datetime.timedelta(days=days, minutes=mins)
AddTimedelta(dt, days, mins) ==
    LET total == dt.minute + mins
        carry == total \div 1440
    IN  [AddDays(dt, days + carry) EXCEPT !.minute = total % 1440]

(* ------------------------ dateutil.relativedelta ----------------------- *)
Sign(n) == IF n < 0 THEN -1 ELSE 1
Abs(n) == IF n < 0 THEN -n ELSE n

\* relativedelta(years=, months=, days=, hours=) after its normalisation:
\* hours beyond 23 carry into days, months beyond 11 carry into years,
\* both keeping the sign of the amount.  Hours are kept in minutes.
relativedelta(years, months, days, mins) ==
    LET hs == Sign(mins)
        dcarry == IF Abs(mins) > 23 * 60 + 59 THEN ((mins * hs) \div 1440) * hs ELSE 0
        m1 == IF Abs(mins) > 23 * 60 + 59 THEN ((mins * hs) % 1440) * hs ELSE mins
        ms == Sign(months)
        ycarry == IF Abs(months) > 11 THEN ((months * ms) \div 12) * ms ELSE 0
        mo1 == IF Abs(months) > 11 THEN ((months * ms) % 12) * ms ELSE months
    IN  [years |-> years + ycarry, months |-> mo1,
         days |-> days + dcarry, mins |-> m1]

RelNeg(rd) ==
    [years |-> -rd.years, months |-> -rd.months,
     days |-> -rd.days, mins |-> -rd.mins]

\* a month carry that forgets the year
RelYearMonth_nocarry(dt, rd) ==
    LET y0 == dt.year + rd.years
        m0 == dt.month + rd.months
    IN  IF m0 > 12 THEN [year |-> y0, month |-> m0 - 12]
        ELSE IF m0 < 1 THEN [year |-> y0 - 1, month |-> m0 + 12]
        ELSE [year |-> y0, month |-> m0]

\* year and month of dt + rd, before the day is clamped
RelYearMonth(dt, rd) ==
    LET y0 == dt.year + rd.years
        m0 == dt.month + rd.months
    IN  IF m0 > 12 THEN [year |-> y0 + 1, month |-> m0 - 12]
        ELSE IF m0 < 1 THEN [year |-> y0 - 1, month |-> m0 + 12]
        ELSE [year |-> y0, month |-> m0]

\* dt.replace(year=...) raises ValueError outside MINYEAR..MAXYEAR
RelAddOk(dt, rd) ==
    RelYearMonth(dt, rd).year \in MINYEAR..MAXYEAR

\* dt + rd: years and months first, the day clamped to the month's length,
\* then the days and hours as a timedelta
RelAdd(dt, rd) ==
    LET ym == RelYearMonth(dt, rd)
        d == Min(DaysInMonth(ym.year, ym.month), dt.day)
    IN  AddTimedelta([dt EXCEPT !.year = ym.year, !.month = ym.month, !.day = d],
                     rd.days, rd.mins)

RelSubOk(dt, rd) == RelAddOk(dt, RelNeg(rd))
RelSub(dt, rd) == RelAdd(dt, RelNeg(rd))

(* ----------------------------- strftime -------------------------------- *)
MonthAbbr ==
    <<"Jan", "Feb", "Mar", "Apr", "May", "Jun",
      "Jul", "Aug", "Sep", "Oct", "Nov", "Dec">>

Pad2(n) == IF n < 10 THEN "0" \o ToString(n) ELSE ToString(n)

Pad4(n) ==
    IF n < 10 THEN "000" \o ToString(n)
    ELSE IF n < 100 THEN "00" \o ToString(n)
    ELSE IF n < 1000 THEN "0" \o ToString(n)
    ELSE ToString(n)

\* the four label formats of the exporters and the format of dtostr
strftime(dt, fmt) ==
    CASE fmt = "%H:%M" -> Pad2(dt.minute \div 60) \o ":" \o Pad2(dt.minute % 60)
      [] fmt = "%d %b %Y" ->
            Pad2(dt.day) \o " " \o MonthAbbr[dt.month] \o " " \o Pad4(dt.year)
      [] fmt = "%b" -> MonthAbbr[dt.month]
      [] fmt = "%Y" -> Pad4(dt.year)
      [] fmt = "%d/%m/%Y" ->
            Pad2(dt.day) \o "/" \o Pad2(dt.month) \o "/" \o Pad4(dt.year)

dtostr(date) == strftime(date, "%d/%m/%Y")

(* ------------------------ parsing of text ------------------------------ *)
DigitChars == <<"0", "1", "2", "3", "4", "5", "6", "7", "8", "9">>
IsDigit(c) == \E i \in 1..10 : DigitChars[i] = c
DigitVal(c) == (CHOOSE i \in 1..10 : DigitChars[i] = c) - 1
IsSpace(c) == c \in {" ", "\t", "\n"}

RECURSIVE Join(_)
Join(cs) == IF cs = <<>> THEN "" ELSE Head(cs) \o Join(Tail(cs))

RECURSIVE DigitsVal(_, _)
DigitsVal(cs, acc) ==
    IF cs = <<>> THEN acc
    ELSE DigitsVal(Tail(cs), IF Head(cs) = "_" THEN acc ELSE 10 * acc + DigitVal(Head(cs)))

RECURSIVE LStrip(_)
LStrip(cs) == IF cs # <<>> /\ IsSpace(Head(cs)) THEN LStrip(Tail(cs)) ELSE cs

RECURSIVE RStrip(_)
RStrip(cs) ==
    IF cs # <<>> /\ IsSpace(cs[Len(cs)]) THEN RStrip(SubSeq(cs, 1, Len(cs) - 1)) ELSE cs

\* int(text): surrounding whitespace, an optional sign, then decimal digits
\* that may be separated by single underscores
IntBody(cs) ==
    LET s == RStrip(LStrip(cs))
    IN  IF s # <<>> /\ Head(s) \in {"+", "-"} THEN Tail(s) ELSE s

IntNegative(cs) ==
    LET s == RStrip(LStrip(cs)) IN s # <<>> /\ Head(s) = "-"

IntOk(cs) ==
    LET b == IntBody(cs)
    IN  /\ b # <<>>
        /\ \A i \in 1..Len(b) : IsDigit(b[i]) \/ b[i] = "_"
        /\ IsDigit(b[1]) /\ IsDigit(b[Len(b)])
        /\ \A i \in 1..(Len(b) - 1) : ~(b[i] = "_" /\ b[i + 1] = "_")

IntVal(cs) ==
    LET v == DigitsVal(IntBody(cs), 0) IN IF IntNegative(cs) THEN -v ELSE v

\* positions of "/" in the text
Slashes(cs) == {i \in 1..Len(cs) : cs[i] = "/"}

AllDigits(cs) == \A i \in 1..Len(cs) : IsDigit(cs[i])

\* the three fields of a text matched against "%d/%m/%Y"
DmyFields(cs) ==
    LET s1 == CHOOSE i \in Slashes(cs) : \A j \in Slashes(cs) : i <= j
        s2 == CHOOSE i \in Slashes(cs) : \A j \in Slashes(cs) : j <= i
    IN  <<SubSeq(cs, 1, s1 - 1), SubSeq(cs, s1 + 1, s2 - 1), SubSeq(cs, s2 + 1, Len(cs))>>

\* datetime.strptime(text, "%d/%m/%Y") succeeds: one or two digits of day,
\* one or two digits of month, four digits of year, and a date that exists
StrptimeOk(cs) ==
    /\ Cardinality(Slashes(cs)) = 2
    /\ LET f == DmyFields(cs)
       IN  /\ Len(f[1]) \in {1, 2} /\ AllDigits(f[1])
           /\ Len(f[2]) \in {1, 2} /\ AllDigits(f[2])
           /\ Len(f[3]) = 4 /\ AllDigits(f[3])
           /\ LET d == DigitsVal(f[1], 0)
                  m == DigitsVal(f[2], 0)
                  y == DigitsVal(f[3], 0)
              IN  /\ m \in 1..12
                  /\ y \in MINYEAR..MAXYEAR
                  /\ d \in 1..DaysInMonth(y, m)

\* datetime.strptime(text, "%d/%m/%Y").date()
strptime(cs) ==
    LET f == DmyFields(cs)
    IN  MkDate(DigitsVal(f[3], 0), DigitsVal(f[2], 0), DigitsVal(f[1], 0))

(* ------------------------- bounded inputs ------------------------------ *)
Chars_01_03_2024 == <<"0", "1", "/", "0", "3", "/", "2", "0", "2", "4">>
Chars_01_12_2023 == <<"0", "1", "/", "1", "2", "/", "2", "0", "2", "3">>
Chars_31_12_2023 == <<"3", "1", "/", "1", "2", "/", "2", "0", "2", "3">>
Chars_29_02_2024 == <<"2", "9", "/", "0", "2", "/", "2", "0", "2", "4">>
Chars_31_02_2024 == <<"3", "1", "/", "0", "2", "/", "2", "0", "2", "4">>
Chars_iso == <<"2", "0", "2", "4", "-", "0", "3", "-", "0", "1">>

DateTexts ==
    {Chars_01_03_2024, Chars_01_12_2023, Chars_31_12_2023, Chars_29_02_2024,
     Chars_31_02_2024, Chars_iso}

\* graphe.periode: a dict that holds dateDebut, or lacks it
Periodes == {[dateDebut |-> t] : t \in DateTexts} \cup {<<>>}

Values == {-5, 10, 20}

\* a data point: a dict that holds valeur, or lacks it
DataPoints == {[valeur |-> v] : v \in Values} \cup {<<>>}

SeqsUpTo(S, n) == UNION {[1..k -> S] : k \in 0..n}

Responses ==
    {[graphe |-> [data |-> d, periode |-> p, decalage |-> k]] :
        d \in SeqsUpTo(DataPoints, MaxLen), p \in Periodes, k \in 0..MaxDecalage}

(* --------------------------- the axes ---------------------------------- *)
NoExc == "none"

\* an insert that always puts the value in front
ListInsert_front(l, index, value) == <<value>> \o l

\* list.insert(index, value) for a non-negative index
ListInsert(l, index, value) ==
    LET i == Min(index, Len(l))
    IN  SubSeq(l, 1, i) \o <<value>> \o SubSeq(l, i + 1, Len(l))

\* a clamp that lets the error codes through
clean_kept(value) == value

\* `if value < 0: value = 0'
clean(value) == IF value < 0 THEN 0 ELSE value

\* the body of the loop of generate_y_axis, from data point number ordre on
RECURSIVE y_loop(_, _, _)
y_loop(data, ordre, y_values) ==
    IF ordre >= Len(data) THEN [exc |-> NoExc, val |-> y_values]
    ELSE LET datapoint == data[ordre + 1]
         IN  IF "valeur" \notin DOMAIN datapoint
             THEN [exc |-> "KeyError", val |-> <<>>]
             ELSE y_loop(data, ordre + 1,
                         ListInsert(y_values, ordre, clean(datapoint.valeur)))

generate_y_axis(res) == y_loop(res.graphe.data, 0, <<>>)

\* relativedelta(**{time_delta_unit: n2 / 2}); n2 counts halves of the unit
UnitDelta(time_delta_unit, n2) ==
    CASE time_delta_unit = "hours" -> relativedelta(0, 0, 0, n2 * 30)
      [] time_delta_unit = "days" -> relativedelta(0, 0, n2 \div 2, (n2 % 2) * 720)
      [] time_delta_unit = "months" -> relativedelta(0, n2 \div 2, 0, 0)
      [] time_delta_unit = "years" -> relativedelta(n2 \div 2, 0, 0, 0)

\* relativedelta refuses a non-integer number of years or months
UnitDeltaOk(time_delta_unit, n2) ==
    time_delta_unit \in {"months", "years"} => n2 % 2 = 0

\* the body of the loop of generate_x_axis, from data point number ordre on
RECURSIVE x_loop(_, _, _, _, _, _, _)
x_loop(n, start_date, time_delta_unit, time_format, inc2, ordre, x_values) ==
    IF ordre >= n THEN [exc |-> NoExc, val |-> x_values]
    ELSE IF ~UnitDeltaOk(time_delta_unit, ordre * inc2)
            \/ ~RelAddOk(start_date, UnitDelta(time_delta_unit, ordre * inc2))
         THEN [exc |-> "ValueError", val |-> <<>>]
         ELSE x_loop(n, start_date, time_delta_unit, time_format, inc2, ordre + 1,
                     ListInsert(x_values, ordre,
                        strftime(RelAdd(start_date,
                                        UnitDelta(time_delta_unit, ordre * inc2)),
                                 time_format)))

\* a start date that moves forward by the offset
StartDate_forward(res, time_delta_unit, inc2) ==
    RelAdd(strptime(res.graphe.periode.dateDebut),
           UnitDelta(time_delta_unit, res.graphe.decalage * inc2))

\* start_date of generate_x_axis, for a response whose dateDebut parses
StartDate(res, time_delta_unit, inc2) ==
    RelSub(strptime(res.graphe.periode.dateDebut),
           UnitDelta(time_delta_unit, res.graphe.decalage * inc2))

\* inc2 is the increment in halves: 1 for inc = 0.5, 2 for inc = 1
generate_x_axis(res, time_delta_unit, time_format, inc2) ==
    IF "dateDebut" \notin DOMAIN res.graphe.periode
    THEN [exc |-> "KeyError", val |-> <<>>]
    ELSE IF ~StrptimeOk(res.graphe.periode.dateDebut)
    THEN [exc |-> "ValueError", val |-> <<>>]
    ELSE IF ~UnitDeltaOk(time_delta_unit, res.graphe.decalage * inc2)
            \/ ~RelSubOk(strptime(res.graphe.periode.dateDebut),
                         UnitDelta(time_delta_unit, res.graphe.decalage * inc2))
    THEN [exc |-> "ValueError", val |-> <<>>]
    ELSE x_loop(Len(res.graphe.data), StartDate(res, time_delta_unit, inc2),
                time_delta_unit, time_format, inc2, 0, <<>>)

(* --------------------------- the files --------------------------------- *)
FileNames ==
    {"export_hours_values.json", "export_days_values.json",
     "export_months_values.json", "export_years_values.json"}

\* a file that does not exist
Absent == [exists |-> FALSE, complete |-> FALSE, records |-> <<>>]

\* the export of an earlier run
PriorExport ==
    [exists |-> TRUE, complete |-> TRUE,
     records |-> <<[time |-> "01 Jan 2020", conso |-> 7]>>]

PriorFiles == {[f \in FileNames |-> Absent], [f \in FileNames |-> PriorExport]}

\* what the file system does to open(..., 'w+') and to the writes of json.dump:
\* the open fails, or a write fails after `written' records, or all goes well
IoOutcomes ==
    {[kind |-> "ok", written |-> 0], [kind |-> "open_fails", written |-> 0]}
    \cup {[kind |-> "write_fails", written |-> k] : k \in 0..MaxLen}

\* the pairing loop of an exporter
RECURSIVE pair_loop(_, _, _, _)
pair_loop(xs, ys, i, values) ==
    IF i >= Len(xs) THEN values
    ELSE pair_loop(xs, ys, i + 1,
                   Append(values, [time |-> xs[i + 1], conso |-> ys[i + 1]]))

\* `with open(path, 'w+') as outfile: json.dump(values, outfile)'
WriteJson(old, values, io) ==
    CASE io.kind = "open_fails" -> [exc |-> "OSError", file |-> old]
      [] io.kind = "write_fails" ->
            [exc |-> "OSError",
             file |-> [exists |-> TRUE, complete |-> FALSE,
                       records |-> SubSeq(values, 1, Min(io.written, Len(values)))]]
      [] io.kind = "ok" ->
            [exc |-> NoExc,
             file |-> [exists |-> TRUE, complete |-> TRUE, records |-> values]]

\* the end of an exporter: the record list is written to the file
dump_values(x, y, v, old, io) ==
    [exc |-> WriteJson(old, v, io).exc, x |-> x.val, y |-> y.val, values |-> v,
     file |-> WriteJson(old, v, io).file]

\* an exporter once both axes were asked for; `loc' holds the locals
\* (x_values, y_values, values) as they were before the call
pair_values(x, y, old, loc, io) ==
    IF x.exc # NoExc
    THEN [exc |-> x.exc, x |-> loc.x, y |-> loc.y, values |-> loc.values, file |-> old]
    ELSE IF y.exc # NoExc
    THEN [exc |-> y.exc, x |-> x.val, y |-> loc.y, values |-> loc.values, file |-> old]
    ELSE dump_values(x, y, pair_loop(x.val, y.val, 0, <<>>), old, io)

\* the body shared by the four exporters
export_values(res, time_delta_unit, time_format, inc2, old, loc, io) ==
    pair_values(generate_x_axis(res, time_delta_unit, time_format, inc2),
                generate_y_axis(res), old, loc, io)

export_hours_values(res, old, loc, io) ==
    export_values(res, "hours", "%H:%M", 1, old, loc, io)

export_days_values(res, old, loc, io) ==
    export_values(res, "days", "%d %b %Y", 2, old, loc, io)

export_months_values(res, old, loc, io) ==
    export_values(res, "months", "%b", 2, old, loc, io)

export_years_values(res, old, loc, io) ==
    export_values(res, "years", "%Y", 2, old, loc, io)

(* ---------------------------- the state -------------------------------- *)
VARIABLES
    pc,         \* position of the run
    environ,    \* names defined in the process environment
    argv,       \* sys.argv without the script name, each argument as characters
    today,      \* datetime.date.today()
    mmonth,     \* main: int(sys.argv[1])
    mmonthnext, \* main: int(sys.argv[1]) + 1
    calls,      \* calls made to the linky collaborator, in order
    res,        \* res_day of main / the argument of an exporter
    files,      \* content of the export files under BASEDIR
    x_values,   \* locals of the exporter that ran
    y_values,
    values,
    ran,        \* name of the exporter that ran, "" if none
    exc,        \* the last exception raised, NoExc if none
    log,        \* messages logged
    exit        \* "running", "0", "1", or "unhandled" (traceback)

vars ==
    <<pc, environ, argv, today, mmonth, mmonthnext, calls, res, files,
      x_values, y_values, values, ran, exc, log, exit>>

EnvNames == {"LINKY_USERNAME", "LINKY_PASSWORD", "BASE_DIR"}

Chars_0 == <<"0">>
Chars_1 == <<"1">>
Chars_m1 == <<"-", "1">>
Chars_sp2 == <<" ", "2">>
Chars_12 == <<"1", "2">>
Chars_abc == <<"a", "b", "c">>
Chars_1p5 == <<"1", ".", "5">>
Chars_empty == <<>>
Chars_99999 == <<"9", "9", "9", "9", "9">>

\* command lines: no argument, or one argument
Argvs ==
    {<<>>} \cup
    {<<a>> : a \in {Chars_0, Chars_1, Chars_m1, Chars_sp2, Chars_12,
                    Chars_abc, Chars_1p5, Chars_empty, Chars_99999}}

Todays == {MkDate(2024, 3, 31), MkDate(2024, 1, 1), MkDate(2024, 2, 29)}

\* what a call to the linky collaborator may raise
CollabExcs == {"LinkyLoginException", "LinkyServiceException", "ConnectionError"}

EmptyResponse ==
    [graphe |-> [data |-> <<>>, periode |-> <<>>, decalage |-> 0]]

Locals == [x |-> x_values, y |-> y_values, values |-> values]

(* ------------------------------ main ----------------------------------- *)
Init ==
    /\ pc = "import"
    /\ environ \in {EnvNames, EnvNames \ {"BASE_DIR"}}
    /\ argv \in Argvs
    /\ today \in Todays
    /\ mmonth = 0
    /\ mmonthnext = 0
    /\ calls = <<>>
    /\ res = EmptyResponse
    /\ files \in PriorFiles
    /\ x_values = <<>>
    /\ y_values = <<>>
    /\ values = <<>>
    /\ ran = ""
    /\ exc = NoExc
    /\ log = <<>>
    /\ exit = "running"

\* an outer handler that catches nothing
OuterCatches_none(e) == FALSE

\* an outer handler that catches everything
OuterCatches_all(e) == TRUE

\* `except linky.LinkyLoginException' of main
OuterCatches(e) == e = "LinkyLoginException"

\* an inner handler for missing keys only
InnerCatches_keys(e) == e = "KeyError"

\* `except Exception' around export_days_values
InnerCatches(e) ==
    e \in {"KeyError", "ValueError", "TypeError", "IndexError", "OSError",
           "LinkyLoginException", "LinkyServiceException", "ConnectionError"}

\* an exception e raised inside the outer try block of main, after `msgs'
Raise(e, msgs) ==
    /\ exc' = e
    /\ pc' = "exited"
    /\ IF OuterCatches(e)
       THEN /\ log' = log \o msgs \o <<"ERROR " \o e>>
            /\ exit' = "1"
       ELSE /\ log' = log \o msgs
            /\ exit' = "unhandled"

\* the module body: the three os.environ reads
Import ==
    /\ pc = "import"
    /\ IF EnvNames \subseteq environ
       THEN /\ pc' = "login"
            /\ UNCHANGED <<exc, exit>>
       ELSE /\ pc' = "exited"
            /\ exc' = "KeyError"
            /\ exit' = "unhandled"
    /\ UNCHANGED <<environ, argv, today, mmonth, mmonthnext, calls, res, files,
                   x_values, y_values, values, ran, log>>

\* main, up to the return of linky.login
Login ==
    /\ pc = "login"
    /\ \E r \in CollabExcs \cup {NoExc} :
          /\ calls' = Append(calls, [fn |-> "login", args |-> <<>>, raised |-> r])
          /\ IF r = NoExc
             THEN /\ pc' = "args"
                  /\ log' = log \o <<"logging in", "logged in successfully!">>
                  /\ UNCHANGED <<exc, exit>>
             ELSE Raise(r, <<"logging in">>)
    /\ UNCHANGED <<environ, argv, today, mmonth, mmonthnext, res, files,
                   x_values, y_values, values, ran>>

\* main, from "retreiving data..." to the two dates it logs
ReadArgs ==
    /\ pc = "args"
    /\ IF argv = <<>>
       THEN /\ Raise("IndexError", <<"retreiving data...">>)
            /\ UNCHANGED <<mmonth, mmonthnext>>
       ELSE IF ~IntOk(argv[1])
       THEN /\ Raise("ValueError", <<"retreiving data...", "arg " \o Join(argv[1])>>)
            /\ UNCHANGED <<mmonth, mmonthnext>>
       ELSE LET m == IntVal(argv[1])
                d1 == relativedelta(0, m, 1, 0)
                d2 == relativedelta(0, m + 1, 1, 0)
            IN  /\ mmonth' = m
                /\ mmonthnext' = m + 1
                /\ IF ~RelSubOk(today, d1)
                   THEN Raise("ValueError",
                              <<"retreiving data...", "arg " \o Join(argv[1])>>)
                   ELSE IF ~RelSubOk(today, d2)
                   THEN Raise("ValueError",
                              <<"retreiving data...", "arg " \o Join(argv[1]),
                                dtostr(RelSub(today, d1))>>)
                   ELSE /\ pc' = "fetch_month"
                        /\ log' = log \o <<"retreiving data...",
                                           "arg " \o Join(argv[1]),
                                           dtostr(RelSub(today, d1)),
                                           dtostr(RelSub(today, d2))>>
                        /\ UNCHANGED <<exc, exit>>
    /\ UNCHANGED <<environ, argv, today, calls, res, files,
                   x_values, y_values, values, ran>>

\* the arguments of the get_data_per_month call
MonthWindow(t) ==
    <<dtostr(RelSub(t, relativedelta(0, 11, 0, 0))), dtostr(t)>>

\* a window of whole months, without the day
DayWindow_months(t, m, mnext) ==
    <<dtostr(RelSub(t, relativedelta(0, mnext, 0, 0))),
      dtostr(RelSub(t, relativedelta(0, m, 0, 0)))>>

\* the arguments of the get_data_per_day call
DayWindow(t, m, mnext) ==
    <<dtostr(RelSub(t, relativedelta(0, mnext, 1, 0))),
      dtostr(RelSub(t, relativedelta(0, m, 1, 0)))>>

\* res_month = linky.get_data_per_month(...)
FetchMonth ==
    /\ pc = "fetch_month"
    /\ \E r \in CollabExcs \cup {NoExc} :
          /\ calls' = Append(calls, [fn |-> "get_data_per_month",
                                     args |-> MonthWindow(today), raised |-> r])
          /\ IF r = NoExc
             THEN /\ pc' = "fetch_day"
                  /\ UNCHANGED <<exc, exit, log>>
             ELSE Raise(r, <<>>)
    /\ UNCHANGED <<environ, argv, today, mmonth, mmonthnext, res, files,
                   x_values, y_values, values, ran>>

\* res_day = linky.get_data_per_day(...)
FetchDay ==
    /\ pc = "fetch_day"
    /\ \E r \in CollabExcs \cup {NoExc} :
          /\ calls' = Append(calls, [fn |-> "get_data_per_day",
                                     args |-> DayWindow(today, mmonth, mmonthnext),
                                     raised |-> r])
          /\ IF r = NoExc
             THEN /\ pc' = "export"
                  /\ res' \in Responses
                  /\ log' = Append(log, "got data!")
                  /\ UNCHANGED <<exc, exit>>
             ELSE /\ Raise(r, <<>>)
                  /\ UNCHANGED res
    /\ UNCHANGED <<environ, argv, today, mmonth, mmonthnext, files,
                   x_values, y_values, values, ran>>

\* the inner try block around a call of export_days_values that computed r,
\* and the end of main
TryExportDays(r) ==
    /\ files' = [files EXCEPT !["export_days_values.json"] = r.file]
    /\ x_values' = r.x
    /\ y_values' = r.y
    /\ values' = r.values
    /\ exc' = r.exc
    /\ ran' = "export_days_values"
    /\ pc' = "exited"
    /\ IF r.exc = NoExc
       THEN /\ exit' = "0"
            /\ UNCHANGED log
       ELSE IF InnerCatches(r.exc)
       THEN /\ exit' = "0"
            /\ log' = Append(log, "days values non exported")
       ELSE /\ exit' = IF OuterCatches(r.exc) THEN "1" ELSE "unhandled"
            /\ UNCHANGED log

ExportDays ==
    /\ pc = "export"
    /\ \E io \in IoOutcomes :
          TryExportDays(export_days_values(res, files["export_days_values.json"],
                                           Locals, io))
    /\ UNCHANGED <<environ, argv, today, mmonth, mmonthnext, calls, res>>

Next == Import \/ Login \/ ReadArgs \/ FetchMonth \/ FetchDay \/ ExportDays

Spec == Init /\ [][Next]_vars

(* ------------------- the exporters called on their own ----------------- *)
InitExporters ==
    /\ pc = "call"
    /\ environ = EnvNames
    /\ argv = <<>>
    /\ today = MkDate(2024, 3, 31)
    /\ mmonth = 0
    /\ mmonthnext = 0
    /\ calls = <<>>
    /\ res \in Responses
    /\ files \in PriorFiles
    /\ x_values = <<>>
    /\ y_values = <<>>
    /\ values = <<>>
    /\ ran = ""
    /\ exc = NoExc
    /\ log = <<>>
    /\ exit = "running"

\* one call of an exporter: r is what it computes, f the file it writes
Returned(name, f, r) ==
    /\ files' = [files EXCEPT ![f] = r.file]
    /\ x_values' = r.x
    /\ y_values' = r.y
    /\ values' = r.values
    /\ exc' = r.exc
    /\ ran' = name
    /\ pc' = "returned"
    /\ UNCHANGED <<environ, argv, today, mmonth, mmonthnext, calls, res, log, exit>>

CallHours ==
    /\ pc = "call"
    /\ \E io \in IoOutcomes :
          Returned("export_hours_values", "export_hours_values.json",
                   export_hours_values(res, files["export_hours_values.json"], Locals, io))

CallDays ==
    /\ pc = "call"
    /\ \E io \in IoOutcomes :
          Returned("export_days_values", "export_days_values.json",
                   export_days_values(res, files["export_days_values.json"], Locals, io))

CallMonths ==
    /\ pc = "call"
    /\ \E io \in IoOutcomes :
          Returned("export_months_values", "export_months_values.json",
                   export_months_values(res, files["export_months_values.json"], Locals, io))

CallYears ==
    /\ pc = "call"
    /\ \E io \in IoOutcomes :
          Returned("export_years_values", "export_years_values.json",
                   export_years_values(res, files["export_years_values.json"], Locals, io))

NextExporters == CallHours \/ CallDays \/ CallMonths \/ CallYears

SpecExporters == InitExporters /\ [][NextExporters]_vars

(* ============================= claims ================================== *)
DaysFile == "export_days_values.json"

FileOf(name) ==
    CASE name = "export_hours_values" -> "export_hours_values.json"
      [] name = "export_days_values" -> "export_days_values.json"
      [] name = "export_months_values" -> "export_months_values.json"
      [] name = "export_years_values" -> "export_years_values.json"

\* an exporter ran and built both axes and the record list
BothAxes == ran # "" /\ exc \in {NoExc, "OSError"}

(* ------------------------------- C1 ------------------------------------ *)
C1Response ==
    [graphe |-> [data |-> <<[valeur |-> -5], [valeur |-> 10], [valeur |-> 20]>>,
                 periode |-> [dateDebut |-> Chars_01_03_2024],
                 decalage |-> 2]]

C1Ran == ran = "export_days_values" /\ res = C1Response /\ exc = NoExc

\* C1 as stated: the day exporter on dateDebut 01/03/2024, decalage 2 and
\* values [-5, 10, 20] writes the records of 27, 28 and 29 Feb 2024.
C1_Original ==
    C1Ran => files[DaysFile].records =
                <<[time |-> "27 Feb 2024", conso |-> 0],
                  [time |-> "28 Feb 2024", conso |-> 10],
                  [time |-> "29 Feb 2024", conso |-> 20]>>

\* C1 amended: the same run writes exactly the records of 28 Feb, 29 Feb and
\* 01 Mar 2024 (01/03/2024 minus two days is 28 Feb 2024), with values 0, 10, 20.
C1_Amended ==
    C1Ran => /\ files[DaysFile].complete
             /\ files[DaysFile].records =
                   <<[time |-> "28 Feb 2024", conso |-> 0],
                     [time |-> "29 Feb 2024", conso |-> 10],
                     [time |-> "01 Mar 2024", conso |-> 20]>>

C1_Witness == C1Ran /\ files[DaysFile].exists

(* ------------------------------- C2 ------------------------------------ *)
\* the date k calendar months before d, the day clamped to the month's length
MonthsBack(d, k) ==
    LET total == d.year * 12 + (d.month - 1) - k
        y == total \div 12
        m == (total % 12) + 1
    IN  MkDate(y, m, Min(d.day, DaysInMonth(y, m)))

DayCalls == {i \in 1..Len(calls) : calls[i].fn = "get_data_per_day"}

\* C2 as stated: the daily fetch is requested from today minus (offset+2)
\* months to today minus (offset+1) months.
C2_Original ==
    \A i \in DayCalls :
        calls[i].args = <<dtostr(MonthsBack(today, IntVal(argv[1]) + 2)),
                          dtostr(MonthsBack(today, IntVal(argv[1]) + 1))>>

\* C2 amended: the daily fetch is requested from the day before (today minus
\* (offset+1) months) to the day before (today minus offset months).
C2_Amended ==
    \A i \in DayCalls :
        calls[i].args = <<dtostr(PrevDay(MonthsBack(today, IntVal(argv[1]) + 1))),
                          dtostr(PrevDay(MonthsBack(today, IntVal(argv[1]))))>>

C2_Witness ==
    \E i \in DayCalls :
        /\ today = MkDate(2024, 3, 31)
        /\ argv = <<Chars_0>>
        /\ calls[i].args = <<"28/02/2024", "30/03/2024">>

(* ------------------------------- C3 ------------------------------------ *)
\* C3 as stated: an exporter run that fails leaves its export file exactly
\* as it was before the run.
C3_Claim ==
    (ran # "" /\ exc # NoExc) => files \in PriorFiles

(* ------------------------------- C4 ------------------------------------ *)
\* C4 as stated: with the month-offset argument missing or not an integer,
\* no login call and no fetch call is made, no exporter runs, no file is written.
C4_Claim ==
    (argv = <<>> \/ ~IntOk(argv[1])) =>
        (calls = <<>> /\ ran = "" /\ files \in PriorFiles)

(* ------------------------------- C5 ------------------------------------ *)
LoginFailed == calls # <<>> /\ calls[1].raised = "LinkyLoginException"

\* C5: when linky.login raises the login error the process exits with code 1,
\* no fetch is issued, no exporter runs and no export file is touched.
C5_LoginError ==
    LoginFailed =>
        /\ exit = "1"
        /\ Len(calls) = 1
        /\ calls[1].fn = "login"
        /\ ran = ""
        /\ files \in PriorFiles

C5_Witness == LoginFailed /\ exit = "1" /\ pc = "exited"

(* ------------------------------- C6 ------------------------------------ *)
\* C6: once login and both fetches succeeded, a failure inside the day
\* exporter is caught and logged, and the process completes with exit code 0.
C6_ExportIsolated ==
    ran = "export_days_values" =>
        /\ exit = "0"
        /\ pc = "exited"
        /\ exc # NoExc => log[Len(log)] = "days values non exported"

C6_Witness ==
    /\ ran = "export_days_values"
    /\ "dateDebut" \notin DOMAIN res.graphe.periode
    /\ exc = "KeyError"
    /\ exit = "0"

(* ------------------------------- C7 ------------------------------------ *)
FailedFetches ==
    {i \in 1..Len(calls) :
        /\ calls[i].fn \in {"get_data_per_month", "get_data_per_day"}
        /\ calls[i].raised # NoExc}

\* C7 as stated: whatever a fetch raises propagates out of main unhandled
\* (neither exit 0 nor exit 1), and no exporter runs afterwards.
C7_Original ==
    \A i \in FailedFetches : exit = "unhandled" /\ ran = ""

\* C7 amended: an error of a fetch other than LinkyLoginException propagates
\* out of main unhandled; a LinkyLoginException of a fetch is caught by the
\* handler of main and ends the run with exit code 1; in both cases the
\* failed fetch is the last call and no exporter runs.
C7_Amended ==
    \A i \in FailedFetches :
        /\ i = Len(calls)
        /\ ran = ""
        /\ exc = calls[i].raised
        /\ files \in PriorFiles
        /\ exit = IF calls[i].raised = "LinkyLoginException" THEN "1" ELSE "unhandled"

C7_Witness ==
    \E i \in FailedFetches :
        calls[i].raised = "LinkyLoginException" /\ exit = "1"

(* ------------------------------- C8 ------------------------------------ *)
\* C8: generate_y_axis maps data[i] to 0 when its value is negative and to
\* the value itself otherwise, in order; every element of the result is >= 0.
C8_Cleaned ==
    BothAxes =>
        /\ Len(y_values) = Len(res.graphe.data)
        /\ \A i \in 1..Len(y_values) :
              /\ y_values[i] >= 0
              /\ res.graphe.data[i].valeur < 0 => y_values[i] = 0
              /\ res.graphe.data[i].valeur >= 0 =>
                    y_values[i] = res.graphe.data[i].valeur

C8_Witness ==
    /\ BothAxes
    /\ \E i, j \in 1..Len(y_values) :
          /\ res.graphe.data[i].valeur < 0
          /\ res.graphe.data[j].valeur > 0

(* ------------------------------- C9 ------------------------------------ *)
\* C9: for each exporter the value sequence, the time axis and the record
\* list are as long as graphe.data, record i pairs label i with the cleaned
\* value of data[i], and a successful run writes exactly that record list.
C9_Aligned ==
    BothAxes =>
        /\ Len(y_values) = Len(res.graphe.data)
        /\ Len(x_values) = Len(res.graphe.data)
        /\ Len(values) = Len(res.graphe.data)
        /\ \A i \in 1..Len(values) :
              /\ values[i].time = x_values[i]
              /\ values[i].conso =
                    IF res.graphe.data[i].valeur < 0 THEN 0
                    ELSE res.graphe.data[i].valeur
        /\ exc = NoExc =>
              /\ files[FileOf(ran)].complete
              /\ files[FileOf(ran)].records = values

C9_Witness ==
    /\ ran = "export_hours_values"
    /\ exc = NoExc
    /\ Len(values) >= 2
    /\ values[1].conso # values[2].conso

(* ------------------------------- C10 ----------------------------------- *)
\* the date of point i (from 1) of the month axis
MonthInstant(i) ==
    RelAdd(StartDate(res, "months", 2), UnitDelta("months", 2 * (i - 1)))

MonthAxis == ran = "export_months_values" /\ BothAxes

\* C10 as stated: across a year boundary the two consecutive month labels
\* show the year going from Y to Y+1 ("Dec 2023" then "Jan 2024").
C10_Original ==
    MonthAxis =>
        \A i \in 1..(Len(x_values) - 1) :
            MonthInstant(i).month = 12 =>
                /\ x_values[i] = "Dec " \o ToString(MonthInstant(i).year)
                /\ x_values[i + 1] = "Jan " \o ToString(MonthInstant(i).year + 1)

\* C10 amended: across a year boundary the two consecutive month labels are
\* "Dec" then "Jan", without a year; the dates behind them go from December
\* of Y to January of Y+1.
C10_Amended ==
    MonthAxis =>
        \A i \in 1..(Len(x_values) - 1) :
            MonthInstant(i).month = 12 =>
                /\ x_values[i] = "Dec"
                /\ x_values[i + 1] = "Jan"
                /\ MonthInstant(i + 1).month = 1
                /\ MonthInstant(i + 1).year = MonthInstant(i).year + 1

C10_Witness ==
    /\ MonthAxis
    /\ \E i \in 1..(Len(x_values) - 1) :
          x_values[i] = "Dec" /\ x_values[i + 1] = "Jan"
====
